---- MODULE Spec2Model ----
(***************************************************************************)
(* A model of src/main.ts: the Signal stream abstraction, its combinators  *)
(* (map, filter, of, merge, loop), the Subject multicast hub and the host  *)
(* microtask queue that Subject.dispatch / Subject.complete defer through. *)
(*                                                                         *)
(* Function values of the program (callbacks, unsubscribe closures,        *)
(* signals) are records naming the closure's code (field k) and what it    *)
(* closed over.  Two closures created by two evaluations of the same arrow *)
(* are told apart by what they closed over or by a fresh id, as JavaScript *)
(* tells them apart by identity.  A handler (a synchronous run of program  *)
(* code: a call from outside, one microtask, one timer callback) is one    *)
(* action; inside it the state is threaded through operators as a record   *)
(* `st` holding every variable.                                            *)
(***************************************************************************)
EXTENDS Integers, Sequences, FiniteSets, TLC

VARIABLES
  dispatchs,   \* Subject.dispatchs of each hub: a Set, kept in insertion order
  completes,   \* Subject.completes of each hub
  microtasks,  \* the host's microtask queue (queueMicrotask, await)
  timers,      \* pending setTimeout callbacks
  counter,     \* merge: `counter` of each merge subscription
  completed,   \* merge: `completed` of each merge subscription
  fresh,       \* number of closures allocated so far (closure identity)
  unsubSink,   \* loop: the sink subscription's Unsubscribe (`unsubSink`)
  held,        \* the Unsubscribe each external caller has been handed
  status,      \* each external caller: "absent", "new", "pending", "active", "unsubscribed"
  graph,       \* the Signal the external callers subscribe to
  calls,       \* history: every Subject.dispatch / Subject.complete call made
  log          \* history: callbacks invoked, promises resolved, Unsubscribes invoked

vars == <<dispatchs, completes, microtasks, timers, counter, completed, fresh,
          unsubSink, held, status, graph, calls, log>>

----------------------------------------------------------------------------
(* Bounds of the model. *)

\* dispatch / complete calls made on the hubs in one behaviour
MaxCalls == 3
\* longest argument list of Signal.of
MaxLen == 4

Values == {1, 2, 3, 4}
Subs == {1, 2}
Hubs == {"A", "B", "source"}
Void == 0

----------------------------------------------------------------------------
(* Function values. *)

\* the value callback and the completion callback of external caller s
OnValue(s) == [k |-> "onValue", n |-> s]
OnComplete(s) == [k |-> "onComplete", n |-> s]
NoUnsub == [k |-> "none"]

\* an entry of the history `log`
Ev(kind, s, v, turn) == [k |-> kind, s |-> s, v |-> v, turn |-> turn]

\* projections and predicates passed to map and filter
Fns == {"double", "inc", "id"}
Preds == {"gt4", "even", "all", "none"}

\* the messages of the Terminal: TerminalRequest and TerminalResponse
PromptRequest(id, data) == [kind |-> "Prompt", id |-> id, data |-> data]
LogRequest(data) == [kind |-> "Log", data |-> data]
TerminalResponse(id, data) == [kind |-> "Prompt", id |-> id, data |-> data]

\* what the user types at a prompt; prompt() ?? "" gives "" when there is none
Answers == {"World", ""}

\* byKind(kind, id) applied to message; a Log message has no id
byKind(kind, id, message) ==
  message.kind = kind /\ "id" \in DOMAIN message /\ message.id = id

ApplyFn(f, x) ==
  CASE f = "double" -> x * 2
    [] f = "inc" -> x + 1
    [] f = "hello" -> LogRequest("Hello " \o x.data)
    [] OTHER -> x

ApplyPred(p, x) ==
  CASE p = "gt4" -> x > 4
    [] p = "even" -> x % 2 = 0
    [] p = "all" -> TRUE
    [] p = "byKind1" -> byKind("Prompt", "1", x)
    [] p = "byKind2" -> byKind("Prompt", "2", x)
    [] OTHER -> FALSE

----------------------------------------------------------------------------
(* The state as a record, and back. *)

Cur ==
  [dispatchs |-> dispatchs, completes |-> completes, microtasks |-> microtasks,
   timers |-> timers, counter |-> counter, completed |-> completed,
   fresh |-> fresh, unsubSink |-> unsubSink, held |-> held, status |-> status,
   calls |-> calls, log |-> log,
   \* the running fan-out: its call, the Set forEach iterates, forEach's position
   turn |-> 0, iterHub |-> "-", iterKind |-> "-", cursor |-> 0]

Commit(st) ==
  /\ dispatchs' = st.dispatchs
  /\ completes' = st.completes
  /\ microtasks' = st.microtasks
  /\ timers' = st.timers
  /\ counter' = st.counter
  /\ completed' = st.completed
  /\ fresh' = st.fresh
  /\ unsubSink' = st.unsubSink
  /\ held' = st.held
  /\ status' = st.status
  /\ calls' = st.calls
  /\ log' = st.log
  /\ graph' = graph

----------------------------------------------------------------------------
(* JavaScript's Set, as the sequence of its members in insertion order. *)

Has(set, x) == \E i \in 1..Len(set) : set[i] = x
IndexOf(set, x) == CHOOSE i \in 1..Len(set) : set[i] = x
SetAdd(set, x) == IF Has(set, x) THEN set ELSE Append(set, x)
SetDelete(set, x) == SelectSeq(set, LAMBDA y : y # x)

\* a queue that runs the newest microtask first
EnqueueFront(q, t) == <<t>> \o q

\* the host's queueMicrotask: first in, first out
Enqueue(q, t) == Append(q, t)

----------------------------------------------------------------------------
(* Subject: the multicast hub. *)

\* the subscribe function the Subject constructor passes to super()
SubjectSubscribe(h, d, c, st) ==
  [st |-> [st EXCEPT !.dispatchs[h] = SetAdd(@, d),
                     !.completes[h] = SetAdd(@, c)],
   unsub |-> [k |-> "subject", hub |-> h, d |-> d, c |-> c]]

\* How far a running forEach over `set` moves back when x is deleted from it:
\* forEach visits the members that are in the Set when it gets to them.
Visited(set, x, h, kind, st) ==
  IF st.iterHub = h /\ st.iterKind = kind /\ Has(set, x)
       /\ IndexOf(set, x) <= st.cursor
    THEN 1 ELSE 0

\* an Unsubscribe that leaves the completion callback registered
SubjectUnsubscribeValueOnly(u, st) ==
  [st EXCEPT !.dispatchs[u.hub] = SetDelete(@, u.d),
             !.cursor = @ - Visited(st.dispatchs[u.hub], u.d, u.hub, "dispatch", st)]

\* the Unsubscribe that subscribe function returns
SubjectUnsubscribe(u, st) ==
  [st EXCEPT !.dispatchs[u.hub] = SetDelete(@, u.d),
             !.completes[u.hub] = SetDelete(@, u.c),
             !.cursor = @ - Visited(st.dispatchs[u.hub], u.d, u.hub, "dispatch", st)
                          - Visited(st.completes[u.hub], u.c, u.hub, "complete", st)]

\* a dispatch / complete that also invokes the callers' callbacks before it
\* returns, inside the call
SubjectCallInline(h, kind, v, st) ==
  LET c == Len(st.calls) + 1
      set == IF kind = "dispatch" THEN st.dispatchs[h] ELSE st.completes[h]
      ext == SelectSeq(set, LAMBDA cb : cb.k \in {"onValue", "onComplete"})
  IN [st EXCEPT
        !.calls = Append(@, [hub |-> h, k |-> kind, v |-> v, from |-> st.turn,
                             atCall |-> set, atTurn |-> <<>>, done |-> FALSE,
                             status |-> st.status, behind |-> Len(st.microtasks)]),
        !.log = @ \o [i \in 1..Len(ext) |->
                        Ev(IF kind = "dispatch" THEN "value" ELSE "complete",
                           ext[i].n, v, c)],
        !.microtasks = Enqueue(@, [k |-> kind, hub |-> h, v |-> v, call |-> c])]

\* a call of Subject.dispatch or Subject.complete: a promise is made and the
\* fan-out is queued.  `calls` remembers the call: the turn it was made from,
\* the Set, the callers' status and the length of the queue as it was made.
SubjectCall(h, kind, v, st) ==
  LET c == Len(st.calls) + 1
      set == IF kind = "dispatch" THEN st.dispatchs[h] ELSE st.completes[h]
  IN [st EXCEPT
        !.calls = Append(@, [hub |-> h, k |-> kind, v |-> v, from |-> st.turn,
                             atCall |-> set, atTurn |-> <<>>, done |-> FALSE,
                             status |-> st.status, behind |-> Len(st.microtasks)]),
        !.microtasks = Enqueue(@, [k |-> kind, hub |-> h, v |-> v, call |-> c])]

SubjectDispatch(h, v, st) == SubjectCall(h, "dispatch", v, st)

SubjectComplete(h, st) == SubjectCall(h, "complete", Void, st)

----------------------------------------------------------------------------
(* Calling a function value. *)

RECURSIVE CallValue(_, _, _)
RECURSIVE CallComplete(_, _)
RECURSIVE Subscribe(_, _, _, _)
RECURSIVE CallUnsub(_, _)

\* the external caller's value callback: it observes the value
ExternalValue(cb, v, st) ==
  [st EXCEPT !.log = Append(@, Ev("value", cb.n, v, st.turn))]

\* the external caller's completion callback
ExternalComplete(cb, st) ==
  [st EXCEPT !.log = Append(@, Ev("complete", cb.n, Void, st.turn))]

\* a caller's value callback that observes the value and then invokes the
\* Unsubscribe another caller was handed
Canceller(s, t) == [k |-> "canceller", n |-> s, target |-> t]

CancellerValue(cb, v, st) ==
  LET s1 == ExternalValue(cb, v, st)
      t == cb.target
  IN IF s1.status[t] = "active"
       THEN CallUnsub(s1.held[t],
                      [s1 EXCEPT !.status[t] = "unsubscribed",
                                 !.log = Append(@, Ev("unsub", t, Void, st.turn))])
       ELSE s1

\* a Terminal that passes every request on downstream as it is
TerminalCallbackEcho(cb, payload, st) == CallValue(cb.down, payload, st)

\* Terminal's value callback: a Log is printed, a Prompt is put to the user and
\* the answer dispatched; the history notes the console.log and the prompt
TerminalCallback(cb, payload, st) ==
  IF payload.kind = "Log"
    THEN [st EXCEPT !.log = Append(@, Ev("console", 0, payload.data, st.turn))]
    ELSE CallValue(cb.down, TerminalResponse(payload.id, cb.answer),
                   [st EXCEPT !.log = Append(@, Ev("prompt", 0, payload.data, st.turn))])

\* map's value callback: (payload) => dispatch(fn(payload))
MapCallback(cb, v, st) == CallValue(cb.down, ApplyFn(cb.fn, v), st)

\* a filter that forwards every payload
FilterCallbackAlways(cb, v, st) == CallValue(cb.down, v, st)

\* filter's value callback: forwards the payloads fn holds of
FilterCallback(cb, v, st) ==
  IF ApplyPred(cb.fn, v) THEN CallValue(cb.down, v, st) ELSE st

\* merge completing when one input is still to complete
MergeCompleteEarly(cb, st) ==
  LET n == st.counter[cb.m] - 1
      s1 == [st EXCEPT !.counter[cb.m] = n,
                       !.log = Append(@, Ev("inputComplete", cb.m, cb.i, st.turn))]
  IN IF n <= 1 /\ ~st.completed[cb.m]
       THEN [CallComplete(cb.down, s1) EXCEPT !.completed[cb.m] = TRUE]
       ELSE s1

\* merge's completion callback of one input; the history notes that input
\* cb.i of merge subscription cb.m completed
MergeComplete(cb, st) ==
  LET n == st.counter[cb.m] - 1
      s1 == [st EXCEPT !.counter[cb.m] = n,
                       !.log = Append(@, Ev("inputComplete", cb.m, cb.i, st.turn))]
  IN IF n <= 0 /\ ~st.completed[cb.m]
       THEN [CallComplete(cb.down, s1) EXCEPT !.completed[cb.m] = TRUE]
       ELSE s1

CallValue(cb, v, st) ==
  CASE cb.k = "onValue" -> ExternalValue(cb, v, st)
    [] cb.k = "map" -> MapCallback(cb, v, st)
    [] cb.k = "filter" -> FilterCallback(cb, v, st)
    [] cb.k = "boundDispatch" -> SubjectDispatch(cb.hub, v, st)
    [] cb.k = "canceller" -> CancellerValue(cb, v, st)
    [] cb.k = "terminal" -> TerminalCallback(cb, v, st)

CallComplete(cb, st) ==
  CASE cb.k = "onComplete" -> ExternalComplete(cb, st)
    [] cb.k = "mergeComplete" -> MergeComplete(cb, st)
    [] cb.k = "boundComplete" -> SubjectComplete(cb.hub, st)

----------------------------------------------------------------------------
(* The fan-out turn a Subject.dispatch / Subject.complete call queued. *)

RECURSIVE ForEach(_, _, _, _)

\* a forEach over a copy of the Set taken when the turn began
ForEachSnapshot(h, kind, v, st) ==
  LET set == st.calls[st.turn].atTurn
  IN IF st.cursor >= Len(set) THEN st
     ELSE LET cb == set[st.cursor + 1]
              s1 == [st EXCEPT !.cursor = @ + 1]
          IN ForEach(h, kind, v,
                     IF kind = "dispatch" THEN CallValue(cb, v, s1)
                                          ELSE CallComplete(cb, s1))

\* Set.prototype.forEach over the hub's Set, from st.cursor on
ForEach(h, kind, v, st) ==
  LET set == IF kind = "dispatch" THEN st.dispatchs[h] ELSE st.completes[h]
  IN IF st.cursor >= Len(set) THEN st
     ELSE LET cb == set[st.cursor + 1]
              s1 == [st EXCEPT !.cursor = @ + 1]
          IN ForEach(h, kind, v,
                     IF kind = "dispatch" THEN CallValue(cb, v, s1)
                                          ELSE CallComplete(cb, s1))

\* resolve(): the promise the call returned is resolved
Resolve(t, st) ==
  [st EXCEPT !.calls[t.call].done = TRUE,
             !.log = Append(@, Ev("resolve", 0, t.v, t.call))]

\* a fan-out that resolves the promise before it calls the callbacks
ResolveFirstTurn(t, st) ==
  LET set == IF t.k = "dispatch" THEN st.dispatchs[t.hub] ELSE st.completes[t.hub]
      s0 == [st EXCEPT !.turn = t.call, !.iterHub = t.hub, !.iterKind = t.k,
                       !.cursor = 0, !.calls[t.call].atTurn = set]
      s1 == ForEach(t.hub, t.k, t.v, Resolve(t, s0))
  IN [s1 EXCEPT !.turn = 0, !.iterHub = "-", !.iterKind = "-", !.cursor = 0]

\* a fan-out over the callbacks that were registered when the call was made
FanOutTurnSnapshot(t, st) ==
  LET snap == st.calls[t.call].atCall
      kind == IF t.k = "dispatch" THEN "value" ELSE "complete"
      s0 == [st EXCEPT !.calls[t.call].atTurn =
                         IF t.k = "dispatch" THEN st.dispatchs[t.hub]
                                             ELSE st.completes[t.hub]]
      s1 == [s0 EXCEPT !.log = @ \o [i \in 1..Len(snap) |->
                                       Ev(kind, snap[i].n, t.v, t.call)]]
  IN Resolve(t, s1)

\* a fan-out of complete() that drops the hub's subscribers when it is done
FanOutTurnClearing(t, st) ==
  LET set == IF t.k = "dispatch" THEN st.dispatchs[t.hub] ELSE st.completes[t.hub]
      s0 == [st EXCEPT !.turn = t.call, !.iterHub = t.hub, !.iterKind = t.k,
                       !.cursor = 0, !.calls[t.call].atTurn = set]
      s1 == Resolve(t, ForEach(t.hub, t.k, t.v, s0))
      s2 == IF t.k = "complete"
              THEN [s1 EXCEPT !.dispatchs[t.hub] = <<>>, !.completes[t.hub] = <<>>]
              ELSE s1
  IN [s2 EXCEPT !.turn = 0, !.iterHub = "-", !.iterKind = "-", !.cursor = 0]

\* the function handed to queueMicrotask: the forEach, then resolve()
FanOutTurn(t, st) ==
  LET set == IF t.k = "dispatch" THEN st.dispatchs[t.hub] ELSE st.completes[t.hub]
      s0 == [st EXCEPT !.turn = t.call, !.iterHub = t.hub, !.iterKind = t.k,
                       !.cursor = 0, !.calls[t.call].atTurn = set]
      s1 == Resolve(t, ForEach(t.hub, t.k, t.v, s0))
  IN [s1 EXCEPT !.turn = 0, !.iterHub = "-", !.iterKind = "-", !.cursor = 0]

----------------------------------------------------------------------------
(* Signals.  A signal is a record naming its subscribe function (field k)  *)
(* and what that function closed over.  Subscribe runs the synchronous     *)
(* part of signal.subscribe(d, c) and gives the state after it and the     *)
(* Unsubscribe its promise resolves to.                                    *)

Of(payloads) == [k |-> "of", payloads |-> payloads]
Map(up, fn) == [k |-> "map", up |-> up, fn |-> fn]
Filter(up, fn) == [k |-> "filter", up |-> up, fn |-> fn]
Merge(signals) == [k |-> "merge", signals |-> signals]
SubjectOf(h) == [k |-> "subject", hub |-> h]
Timeout == [k |-> "timeout"]
Loop(sink) == [k |-> "loop", sink |-> sink]
Terminal(up, answer) == [k |-> "terminal", up |-> up, answer |-> answer]

\* of's for loop over payloads, from payload i on
RECURSIVE DispatchAll(_, _, _, _)
DispatchAll(payloads, i, d, st) ==
  IF i > Len(payloads) THEN st
  ELSE DispatchAll(payloads, i + 1, d, CallValue(d, payloads[i], st))

\* of signalling completion before its payloads
OfSubscribeCompleteFirst(sig, d, c, st) ==
  [st |-> DispatchAll(sig.payloads, 1, d, CallComplete(c, st)),
   unsub |-> [k |-> "noop"]]

OfSubscribe(sig, d, c, st) ==
  [st |-> CallComplete(c, DispatchAll(sig.payloads, 1, d, st)),
   unsub |-> [k |-> "noop"]]

MapSubscribe(sig, d, c, st) ==
  Subscribe(sig.up,
            [k |-> "map", fn |-> sig.fn, down |-> d, id |-> st.fresh + 1],
            c, [st EXCEPT !.fresh = @ + 1])

FilterSubscribe(sig, d, c, st) ==
  Subscribe(sig.up,
            [k |-> "filter", fn |-> sig.fn, down |-> d, id |-> st.fresh + 1],
            c, [st EXCEPT !.fresh = @ + 1])

\* signals.map(signal => signal.subscribe(dispatch, () => {...})), from
\* signal i on; us collects the Unsubscribes
RECURSIVE SubscribeAll(_, _, _, _, _, _, _)
SubscribeAll(signals, i, m, d, c, us, st) ==
  IF i > Len(signals) THEN [st |-> st, unsub |-> [k |-> "all", us |-> us, m |-> m]]
  ELSE LET r == Subscribe(signals[i], d,
                          [k |-> "mergeComplete", m |-> m, i |-> i, down |-> c],
                          st)
       IN SubscribeAll(signals, i + 1, m, d, c, Append(us, r.unsub), r.st)

\* a merge that counts one input however many it was given
MergeSubscribeCountOne(sig, d, c, st) ==
  LET m == Len(st.counter) + 1
  IN SubscribeAll(sig.signals, 1, m, d, c, <<>>,
                  [st EXCEPT !.counter = Append(@, 1),
                             !.completed = Append(@, FALSE)])

MergeSubscribe(sig, d, c, st) ==
  LET m == Len(st.counter) + 1
  IN SubscribeAll(sig.signals, 1, m, d, c, <<>>,
                  [st EXCEPT !.counter = Append(@, Len(sig.signals)),
                             !.completed = Append(@, FALSE)])

\* Timeout: setTimeout(() => { dispatch(); complete(); }, delay)
TimeoutSubscribe(sig, d, c, st) ==
  [st |-> [st EXCEPT !.timers = Append(@, [d |-> d, c |-> c])],
   unsub |-> [k |-> "noop"]]

\* Terminal: return source.subscribe((payload) => {...}, complete)
TerminalSubscribe(sig, d, c, st) ==
  Subscribe(sig.up,
            [k |-> "terminal", answer |-> sig.answer, down |-> d, id |-> st.fresh + 1],
            c, [st EXCEPT !.fresh = @ + 1])

Subscribe(sig, d, c, st) ==
  CASE sig.k = "of" -> OfSubscribe(sig, d, c, st)
    [] sig.k = "map" -> MapSubscribe(sig, d, c, st)
    [] sig.k = "filter" -> FilterSubscribe(sig, d, c, st)
    [] sig.k = "merge" -> MergeSubscribe(sig, d, c, st)
    [] sig.k = "subject" -> SubjectSubscribe(sig.hub, d, c, st)
    [] sig.k = "timeout" -> TimeoutSubscribe(sig, d, c, st)
    [] sig.k = "terminal" -> TerminalSubscribe(sig, d, c, st)

RECURSIVE UnsubAll(_, _, _)

\* a merge Unsubscribe that leaves its first input subscribed
UnsubAllButFirst(u, i, st) ==
  IF i > Len(u.us) THEN st
  ELSE UnsubAll(u, i + 1, IF i = 1 THEN st ELSE CallUnsub(u.us[i], st))

\* merge's Unsubscribe: unsubs.forEach(unsub => unsub()), from unsub i on;
\* the history notes that the Unsubscribe of input i was invoked
UnsubAll(u, i, st) ==
  IF i > Len(u.us) THEN st
  ELSE UnsubAll(u, i + 1,
                CallUnsub(u.us[i],
                          [st EXCEPT !.log = Append(@, Ev("inputUnsub", u.m, i, st.turn))]))

\* loop's Unsubscribe: source.complete(); unsubSink()
LoopUnsubscribe(u, st) == CallUnsub(u.sink, SubjectComplete(u.hub, st))

CallUnsub(u, st) ==
  CASE u.k = "noop" -> st
    [] u.k = "subject" -> SubjectUnsubscribe(u, st)
    [] u.k = "all" -> UnsubAll(u, 1, st)
    [] u.k = "loop" -> LoopUnsubscribe(u, st)

----------------------------------------------------------------------------
(* loop: the async subscribe function, one action per stretch between its *)
(* awaits.  Each await resumes the function from the microtask queue.      *)

BoundDispatch(h, id) == [k |-> "boundDispatch", hub |-> h, id |-> id]
BoundComplete(h, id) == [k |-> "boundComplete", hub |-> h, id |-> id]

\* a loop that does not register its caller on the hub
LoopStartUnregistered(s, st) ==
  [st EXCEPT !.status[s] = "pending",
             !.microtasks = Enqueue(@, [k |-> "resume", label |-> "handler", s |-> s])]

\* const source = new Subject(); await source.subscribe(dispatch, complete)
LoopStart(s, st) ==
  LET r == SubjectSubscribe("source", OnValue(s), OnComplete(s), st)
  IN [r.st EXCEPT !.status[s] = "pending",
                  !.microtasks = Enqueue(@, [k |-> "resume", label |-> "handler", s |-> s])]

\* a loop that wires the sink into the hub twice
LoopHandlerTwice(t, st) ==
  LET r == Subscribe(graph.sink, BoundDispatch("source", st.fresh + 1),
                     BoundComplete("source", st.fresh + 2),
                     [st EXCEPT !.fresh = @ + 2])
      q == Subscribe(graph.sink, BoundDispatch("source", r.st.fresh + 1),
                     BoundComplete("source", r.st.fresh + 2),
                     [r.st EXCEPT !.fresh = @ + 2])
  IN [q.st EXCEPT !.unsubSink = q.unsub,
                  !.microtasks = Enqueue(@, [k |-> "resume", label |-> "return", s |-> t.s])]

\* const sink = handler(source); const unsubSink = await sink.subscribe(
\*   source.dispatch.bind(source), source.complete.bind(source))
LoopHandler(t, st) ==
  LET r == Subscribe(graph.sink, BoundDispatch("source", st.fresh + 1),
                     BoundComplete("source", st.fresh + 2),
                     [st EXCEPT !.fresh = @ + 2])
  IN [r.st EXCEPT !.unsubSink = r.unsub,
                  !.microtasks = Enqueue(@, [k |-> "resume", label |-> "return", s |-> t.s])]

\* return () => { source.complete(); unsubSink(); }
LoopReturn(t, st) ==
  [st EXCEPT !.held[t.s] = [k |-> "loop", hub |-> "source", sink |-> st.unsubSink],
             !.status[t.s] = "active"]

----------------------------------------------------------------------------
(* Actions: one per handler. *)

\* the cap on the calls made in one behaviour
Within(st) == Len(st.calls) <= MaxCalls

\* hubs a producer outside the graph drives
RECURSIVE Driven(_)
Driven(sig) ==
  CASE sig.k = "subject" -> {sig.hub} \ {"source"}
    [] sig.k \in {"map", "filter", "terminal"} -> Driven(sig.up)
    [] sig.k = "merge" -> UNION {Driven(sig.signals[i]) : i \in 1..Len(sig.signals)}
    [] sig.k = "loop" -> Driven(sig.sink)
    [] OTHER -> {}

\* an external caller subscribes: await graph.subscribe(onValue, onComplete)
ExtSubscribe(s) ==
  /\ graph.k # "loop"
  /\ status[s] = "new"
  /\ LET r == Subscribe(graph, OnValue(s), OnComplete(s), Cur)
     IN /\ Within(r.st)
        /\ Commit([r.st EXCEPT !.held[s] = r.unsub, !.status[s] = "active"])

\* the callbacks caller s passes to subscribe, where the graph says so
CallbacksOf(s) == graph.cbs[s]

\* an external caller subscribes with the callbacks the graph gives it:
\* await hub.subscribe(d, c)
CallerSubscribe(s) ==
  /\ status[s] = "new"
  /\ LET r == Subscribe(graph, CallbacksOf(s).d, CallbacksOf(s).c, Cur)
     IN /\ Within(r.st)
        /\ Commit([r.st EXCEPT !.held[s] = r.unsub, !.status[s] = "active"])

\* an external caller subscribes to a loop: the function runs to its first await
LoopSubscribe(s) ==
  /\ graph.k = "loop"
  /\ status[s] = "new"
  /\ Commit(LoopStart(s, Cur))

\* an external caller invokes the Unsubscribe it was handed
ExtUnsubscribe(s) ==
  /\ status[s] = "active"
  /\ LET st == CallUnsub(held[s], [Cur EXCEPT !.log = Append(@, Ev("unsub", s, Void, 0)),
                                              !.status[s] = "unsubscribed"])
     IN Within(st) /\ Commit(st)

\* a producer calls hub.dispatch(v); the payloads are numbered as they are made
ProducerDispatch(h) ==
  /\ h \in Driven(graph)
  /\ Len(calls) < MaxCalls
  /\ Commit(SubjectDispatch(h, Len(calls) + 1, Cur))

\* a producer calls hub.complete()
ProducerComplete(h) ==
  /\ h \in Driven(graph)
  /\ Len(calls) < MaxCalls
  /\ Commit(SubjectComplete(h, Cur))

\* code holding the loop's hub (the handler was given it) calls source.dispatch(v)
Inject ==
  /\ graph.k = "loop"
  /\ graph.sink = SubjectOf("source")
  /\ unsubSink # NoUnsub
  /\ Len(calls) < MaxCalls
  /\ Commit(SubjectDispatch("source", Len(calls) + 1, Cur))

\* the host runs the oldest microtask to completion
RunMicrotask ==
  /\ microtasks # <<>>
  /\ LET t == Head(microtasks)
         s0 == [Cur EXCEPT !.microtasks = Tail(@)]
         st == CASE t.k \in {"dispatch", "complete"} -> FanOutTurn(t, s0)
                 [] t.k = "resume" /\ t.label = "handler" -> LoopHandler(t, s0)
                 [] t.k = "resume" /\ t.label = "return" -> LoopReturn(t, s0)
     IN Within(st) /\ Commit(st)

\* the host runs a due setTimeout callback (a task: no microtask is pending)
TimerFire ==
  /\ microtasks = <<>>
  /\ \E i \in 1..Len(timers) :
       LET t == timers[i]
           s0 == [Cur EXCEPT !.timers = SubSeq(@, 1, i - 1) \o SubSeq(@, i + 1, Len(@))]
           st == CallComplete(t.c, CallValue(t.d, Void, s0))
       IN Within(st) /\ Commit(st)

----------------------------------------------------------------------------
(* Specifications: the program after construction of one stream graph.     *)

Seqs(S, n) == UNION {[1..k -> S] : k \in 0..n}

InitWith(g, callers) ==
  /\ graph = g
  /\ dispatchs = [h \in Hubs |-> <<>>]
  /\ completes = [h \in Hubs |-> <<>>]
  /\ microtasks = <<>>
  /\ timers = <<>>
  /\ counter = <<>>
  /\ completed = <<>>
  /\ fresh = 0
  /\ unsubSink = NoUnsub
  /\ held = [s \in Subs |-> NoUnsub]
  /\ status = [s \in Subs |-> IF s \in callers THEN "new" ELSE "absent"]
  /\ calls = <<>>
  /\ log = <<>>

NextHub ==
  \/ \E s \in Subs : ExtSubscribe(s)
  \/ \E s \in Subs : ExtUnsubscribe(s)
  \/ \E h \in Hubs : ProducerDispatch(h)
  \/ \E h \in Hubs : ProducerComplete(h)
  \/ RunMicrotask

NextCold ==
  \/ \E s \in Subs : ExtSubscribe(s)
  \/ \E s \in Subs : ExtUnsubscribe(s)

NextLoop ==
  \/ \E s \in Subs : LoopSubscribe(s)
  \/ \E s \in Subs : ExtUnsubscribe(s)
  \/ \E h \in Hubs : ProducerDispatch(h)
  \/ \E h \in Hubs : ProducerComplete(h)
  \/ Inject
  \/ RunMicrotask
  \/ TimerFire

\* one Subject, its subscribers and a producer
InitSubject == InitWith(SubjectOf("A"), Subs)
SpecSubject == InitSubject /\ [][NextHub]_vars

\* Signal.of(...payloads)
InitOf == \E xs \in Seqs(Values, MaxLen) : InitWith(Of(xs), Subs)
SpecOf == InitOf /\ [][NextCold]_vars

\* Signal.of(...payloads).map(fn).filter(p)
InitMapFilter ==
  \E xs \in Seqs(Values, MaxLen), f \in Fns, p \in Preds :
    InitWith(Filter(Map(Of(xs), f), p), Subs)
SpecMapFilter == InitMapFilter /\ [][NextCold]_vars

\* Signal.merge(A, B)
MergeInputs == {Of(xs) : xs \in Seqs({1, 2}, 1)} \cup {SubjectOf("A"), SubjectOf("B")}
InitMerge == \E a \in MergeInputs, b \in MergeInputs : InitWith(Merge(<<a, b>>), {1})
SpecMerge == InitMerge /\ [][NextHub]_vars

\* Signal.loop(handler): handler(source) is the sink
LoopSinks ==
  {SubjectOf("source"), SubjectOf("A"), Timeout} \cup {Of(xs) : xs \in Seqs({1, 2}, 2)}
InitLoop == \E sink \in LoopSinks : InitWith(Loop(sink), {1})
SpecLoop == InitLoop /\ [][NextLoop]_vars

NextCallers ==
  \/ \E s \in Subs : CallerSubscribe(s)
  \/ \E s \in Subs : ExtUnsubscribe(s)
  \/ \E h \in Hubs : ProducerDispatch(h)
  \/ \E h \in Hubs : ProducerComplete(h)
  \/ RunMicrotask

\* a Subject whose callers pass the callbacks cbs
SubjectWith(h, cbs) == [k |-> "subject", hub |-> h, cbs |-> cbs]

\* one Subject; the callers pass one function each, or both the same function
InitShared ==
  \E shared \in BOOLEAN :
    InitWith(SubjectWith("A", [s \in Subs |->
                                 [d |-> OnValue(IF shared THEN 1 ELSE s),
                                  c |-> OnComplete(IF shared THEN 1 ELSE s)]]), Subs)
SpecShared == InitShared /\ [][NextCallers]_vars

\* one Subject; the value callback of caller 1 unsubscribes caller 2
InitCancel ==
  InitWith(SubjectWith("A", [x \in Subs |->
                               [d |-> IF x = 1 THEN Canceller(1, 2) ELSE OnValue(x),
                                c |-> OnComplete(x)]]), Subs)
SpecCancel == InitCancel /\ [][NextCallers]_vars

NextMain ==
  \/ \E s \in Subs : LoopSubscribe(s)
  \/ \E s \in Subs : ExtUnsubscribe(s)
  \/ RunMicrotask

\* the requests a program starts with
Requests == {PromptRequest("1", "Q"), PromptRequest("2", "Q"), LogRequest("hi")}

\* main's handler: merge(of(...requests), source.filter(byKind).map(hello))
Cycle(reqs, p) ==
  Merge(<<Of(reqs), Map(Filter(SubjectOf("source"), p), "hello")>>)

\* main: Signal.loop(source => Terminal(merge(of(...), source.filter(...).map(...))))
Main(reqs, p, answer) == Loop(Terminal(Cycle(reqs, p), answer))

\* the graph of main, and the same cycle with no Terminal in it
InitMain ==
  \E reqs \in Seqs(Requests, 2), p \in {"byKind1", "byKind2"} :
    \/ \E answer \in Answers : InitWith(Main(reqs, p, answer), {1})
    \/ InitWith(Loop(Cycle(reqs, p)), {1})
SpecMain == InitMain /\ [][NextMain]_vars

Spec == SpecSubject

----------------------------------------------------------------------------
(* What the histories say. *)

\* the callbacks of external caller s that were invoked, in order
Trace(s) == SelectSeq(log, LAMBDA e : e.k \in {"value", "complete"} /\ e.s = s)

\* the callbacks invoked and the promise resolved in fan-out turn c, in order
TurnEvents(c) ==
  SelectSeq(log, LAMBDA e : e.k \in {"value", "complete", "resolve"} /\ e.turn = c)

\* what a caller observes of values xs delivered outside any fan-out turn and
\* one completion after them
Delivered(s, xs) ==
  [i \in 1..(Len(xs) + 1) |->
     IF i <= Len(xs) THEN Ev("value", s, xs[i], 0) ELSE Ev("complete", s, Void, 0)]

Subscribed(s) == status[s] \in {"active", "unsubscribed"}

Count(seq, P(_)) == Len(SelectSeq(seq, P))

\* positions of the history where P holds
Where(P(_)) == {i \in 1..Len(log) : P(log[i])}

----------------------------------------------------------------------------
\* C1: every subscription to Signal.of(...v) gets onValue with exactly the
\* elements of v in list order, then onComplete exactly once, and no onValue
\* after onComplete; a caller that has not subscribed gets nothing.
C1_OfDeliversInOrderThenCompletes ==
  graph.k = "of" =>
    \A s \in Subs :
      Trace(s) = IF Subscribed(s) THEN Delivered(s, graph.payloads) ELSE <<>>

\* both callers have subscribed to of(v) with v of three payloads, not all equal
C1_Witness ==
  /\ graph.k = "of"
  /\ Len(graph.payloads) = 3
  /\ graph.payloads[1] # graph.payloads[3]
  /\ \A s \in Subs : Subscribed(s) /\ Len(Trace(s)) = 4

\* C1 also for the empty list: one completion and no value
C1_WitnessEmpty ==
  /\ graph.k = "of"
  /\ graph.payloads = <<>>
  /\ \E s \in Subs : Subscribed(s) /\ Trace(s) = <<Ev("complete", s, Void, 0)>>

----------------------------------------------------------------------------
InputCompletions(m, i) ==
  Where(LAMBDA e : e.k = "inputComplete" /\ e.s = m /\ e.v = i)

DownstreamCompletions(s) == Where(LAMBDA e : e.k = "complete" /\ e.s = s)

\* C2: for merge(A, B) whose inputs each complete at most once, downstream
\* completion is signalled at most once, only after both inputs have
\* completed, and exactly once when both have.
C2_MergeCompletesOnceAfterBoth ==
  graph.k = "merge" =>
    \A s \in Subs :
      Subscribed(s) =>
        LET m == held[s].m
            done == DownstreamCompletions(s)
        IN (\A i \in {1, 2} : Cardinality(InputCompletions(m, i)) <= 1) =>
             /\ Cardinality(done) <= 1
             /\ (done # {}) <=> (\A i \in {1, 2} : InputCompletions(m, i) # {})
             /\ \A j \in done, i \in {1, 2} : \A x \in InputCompletions(m, i) : x < j

\* merge of two hubs: B completed first, then A, and downstream completed once
C2_Witness ==
  /\ graph = Merge(<<SubjectOf("A"), SubjectOf("B")>>)
  /\ Cardinality(DownstreamCompletions(1)) = 1
  /\ \E x \in InputCompletions(1, 2), y \in InputCompletions(1, 1) : x < y

----------------------------------------------------------------------------
TwoRegistered(c, a, b) ==
  /\ calls[c].k = "dispatch"
  /\ calls[c].atCall = <<OnValue(a), OnValue(b)>>
  /\ calls[c].atTurn = <<OnValue(a), OnValue(b)>>

\* C3: when dispatch(v) is called on a Subject with two subscribers s1
\* (registered first) and s2, and both stay registered, the fan-out invokes
\* s1's value callback with v, then s2's, each exactly once, and then the
\* promise of the call resolves.
C3_BothInvokedInOrderBeforeResolve ==
  graph = SubjectOf("A") =>
    \A c \in 1..Len(calls) : \A a \in Subs, b \in Subs :
      (calls[c].done /\ TwoRegistered(c, a, b)) =>
        TurnEvents(c) = <<Ev("value", a, calls[c].v, c), Ev("value", b, calls[c].v, c),
                          Ev("resolve", 0, calls[c].v, c)>>

\* caller 2 registered before caller 1, and a dispatch to both has resolved
C3_Witness ==
  /\ graph = SubjectOf("A")
  /\ \E c \in 1..Len(calls) : calls[c].done /\ TwoRegistered(c, 2, 1)

----------------------------------------------------------------------------
CalledAfterUnsub(c, s) == calls[c].status[s] = "unsubscribed"

\* C4: a subscriber that invoked its Unsubscribe has neither callback invoked
\* by a dispatch or complete call made after that, and the subscriber that
\* remains registered is invoked with the value of such a dispatch.
C4_UnsubscribedNotInvoked ==
  graph = SubjectOf("A") =>
    \A c \in 1..Len(calls) : \A s \in Subs :
      CalledAfterUnsub(c, s) =>
        /\ Count(TurnEvents(c), LAMBDA e : e.s = s) = 0
        /\ \A t \in Subs \ {s} :
             (calls[c].done /\ calls[c].atTurn = <<OnValue(t)>>) =>
               Count(TurnEvents(c), LAMBDA e : e = Ev("value", t, calls[c].v, c)) = 1

\* caller 1 unsubscribed, then a dispatch was made and reached caller 2 alone
C4_Witness ==
  /\ graph = SubjectOf("A")
  /\ \E c \in 1..Len(calls) :
       /\ CalledAfterUnsub(c, 1)
       /\ calls[c].done
       /\ calls[c].atTurn = <<OnValue(2)>>
       /\ TurnEvents(c) = <<Ev("value", 2, calls[c].v, c), Ev("resolve", 0, calls[c].v, c)>>

----------------------------------------------------------------------------
FanOutLog == SelectSeq(log, LAMBDA e : e.k \in {"value", "complete", "resolve"})

\* C5: the fan-out turns of one producer's dispatch and complete calls run in
\* call order: every callback of call N (and its promise's resolution) comes
\* before any callback of a later call, so each subscriber observes the
\* payloads in the order they were dispatched.
C5_TurnsRunInCallOrder ==
  graph = SubjectOf("A") =>
    /\ LET f == FanOutLog
       IN \A i \in 1..(Len(f) - 1) : f[i].turn <= f[i + 1].turn
    /\ \A c \in 1..Len(calls), d \in 1..Len(calls) :
         (c < d /\ calls[d].done) => calls[c].done

\* two calls were queued together, and a caller then observed both in order
C5_Witness ==
  /\ graph = SubjectOf("A")
  /\ Len(calls) >= 2
  /\ calls[2].behind = 1
  /\ \E s \in Subs :
       Trace(s) = <<Ev("value", s, 1, 1), Ev("complete", s, Void, 2)>>


----------------------------------------------------------------------------
CallIds == [c \in 1..Len(calls) |-> c]
OnSource == SelectSeq(CallIds, LAMBDA c : calls[c].hub = "source")
SourceDone == SelectSeq(CallIds, LAMBDA c : calls[c].hub = "source" /\ calls[c].done)

AsEvent(s, c) ==
  Ev(IF calls[c].k = "dispatch" THEN "value" ELSE "complete", s, calls[c].v, c)

\* the sink's callback wired into the hub was in the Set fan-out turn c went over
Wired(c) ==
  \E i \in 1..Len(calls[c].atTurn) :
    calls[c].atTurn[i].k = (IF calls[c].k = "dispatch" THEN "boundDispatch"
                                                        ELSE "boundComplete")

\* the calls into the hub made in fan-out turn c
MadeIn(c) ==
  {d \in 1..Len(calls) : calls[d].from = c /\ calls[d].hub = "source"}

Joined(s) == status[s] \in {"pending", "active", "unsubscribed"}

\* C6: in a loop subscription every call the sink makes into the hub is
\* delivered to the external caller exactly once, in the order the sink made
\* them, values emitted while the sink is being subscribed included, and the
\* caller's onComplete for the sink's completion comes after those values.
C6_LoopDeliversSinkOutputInOrder ==
  graph.k = "loop" =>
    \A s \in Subs :
      Joined(s) =>
        /\ LET sd == SourceDone
           IN Trace(s) = [j \in 1..Len(sd) |-> AsEvent(s, sd[j])]
        /\ \A c \in 1..Len(calls), d \in 1..Len(calls) :
             (c < d /\ calls[c].hub = "source" /\ calls[d].hub = "source"
                /\ calls[d].done) => calls[c].done
        /\ (graph.sink.k = "of" /\ unsubSink # NoUnsub) =>
             LET xs == graph.sink.payloads
                 os == OnSource
             IN /\ Len(os) > Len(xs)
                /\ \A i \in 1..Len(xs) :
                     calls[os[i]].k = "dispatch" /\ calls[os[i]].v = xs[i]
                /\ calls[os[Len(xs) + 1]].k = "complete"
        /\ \A c \in 1..Len(calls) :
             (calls[c].done /\ Wired(c)) =>
               \E d \in MadeIn(c) :
                 /\ MadeIn(c) = {d}
                 /\ calls[d].k = calls[c].k
                 /\ calls[d].v = calls[c].v

\* the sink of(1, 2) emitted while it was subscribed, and the caller observed
\* 1, 2 and the completion
C6_Witness ==
  /\ graph = Loop(Of(<<1, 2>>))
  /\ Trace(1) = <<Ev("value", 1, 1, 1), Ev("value", 1, 2, 2), Ev("complete", 1, Void, 3)>>

\* a sink fed by another hub: its value came through that hub and the loop's
C6_WitnessAsync ==
  /\ graph = Loop(SubjectOf("A"))
  /\ \E c \in 1..Len(calls) : calls[c].hub = "A" /\ calls[c].done /\ Wired(c)
  /\ Len(Trace(1)) = 1

----------------------------------------------------------------------------
\* where in the history caller s was given value v
Deliveries(s, v) == Where(LAMBDA e : e.k = "value" /\ e.s = s /\ e.v = v)

\* the loop's handler returns its source unchanged
Identity == graph = Loop(SubjectOf("source"))

\* the finished fan-out turns that carried value v
TurnsCarrying(v) ==
  {c \in 1..Len(calls) : calls[c].k = "dispatch" /\ calls[c].v = v /\ calls[c].done}

\* C7 as claimed: in a loop whose handler is the identity, a value injected
\* into the hub is delivered to the external subscriber exactly once.
C7_DeliveredExactlyOnce ==
  Identity =>
    \A s \in Subs : \A c \in 1..Len(calls) :
      (Joined(s) /\ calls[c].from = 0 /\ calls[c].k = "dispatch") =>
        /\ Cardinality(Deliveries(s, calls[c].v)) <= 1
        /\ calls[c].done => Cardinality(Deliveries(s, calls[c].v)) = 1

\* C7 as amended: in a loop whose handler is the identity, every fan-out turn
\* of the hub delivers its value to the external subscriber exactly once, and
\* while the sink is wired delivers it into the hub again exactly once; an
\* injected value is so delivered once per trip round the cycle, as many
\* times as the turns that carried it.
C7_DeliveredOncePerRoundTrip ==
  Identity =>
    \A s \in Subs :
      Joined(s) =>
        /\ \A c \in 1..Len(calls) :
             (calls[c].done /\ calls[c].k = "dispatch") =>
               /\ Count(TurnEvents(c), LAMBDA e : e.k = "value") = 1
               /\ Count(TurnEvents(c), LAMBDA e : e = Ev("value", s, calls[c].v, c)) = 1
               /\ Cardinality(MadeIn(c)) = (IF Wired(c) THEN 1 ELSE 0)
               /\ \A d \in MadeIn(c) : calls[d].k = "dispatch" /\ calls[d].v = calls[c].v
        /\ \A v \in 1..MaxCalls :
             Cardinality(Deliveries(s, v)) = Cardinality(TurnsCarrying(v))

\* an injected value went round the cycle: two turns, two deliveries
C7_Witness ==
  /\ Identity
  /\ calls # <<>>
  /\ calls[1].from = 0
  /\ Cardinality(Deliveries(1, calls[1].v)) = 2
  /\ \E d \in MadeIn(1) : calls[d].done /\ Wired(d)

----------------------------------------------------------------------------
\* C8: once the Unsubscribe of a loop subscription has been invoked, neither
\* the caller's onValue nor its onComplete is invoked again.
C8_NothingAfterUnsubscribe ==
  graph.k = "loop" =>
    \A s \in Subs :
      \A i \in Where(LAMBDA e : e.k = "unsub" /\ e.s = s) :
        \A j \in Where(LAMBDA e : e.k \in {"value", "complete"} /\ e.s = s) : j < i

\* C8, the values alone: no onValue after the Unsubscribe
C8_NoValueAfterUnsubscribe ==
  graph.k = "loop" =>
    \A s \in Subs :
      \A i \in Where(LAMBDA e : e.k = "unsub" /\ e.s = s) :
        \A j \in Where(LAMBDA e : e.k = "value" /\ e.s = s) : j < i

----------------------------------------------------------------------------
\* C9: in a loop subscription the caller's onComplete is invoked at most
\* once, and onValue is never invoked after onComplete.
C9_CompleteAtMostOnceAndLast ==
  graph.k = "loop" =>
    \A s \in Subs :
      /\ Cardinality(DownstreamCompletions(s)) <= 1
      /\ \A i \in DownstreamCompletions(s) :
           \A j \in Where(LAMBDA e : e.k = "value" /\ e.s = s) : j < i

\* C9, the first half alone
C9_CompleteAtMostOnce ==
  graph.k = "loop" =>
    \A s \in Subs : Cardinality(DownstreamCompletions(s)) <= 1

\* C9, the second half alone
C9_NoValueAfterComplete ==
  graph.k = "loop" =>
    \A s \in Subs :
      \A i \in DownstreamCompletions(s) :
        \A j \in Where(LAMBDA e : e.k = "value" /\ e.s = s) : j < i

----------------------------------------------------------------------------
Projected(xs, f) == [i \in 1..Len(xs) |-> ApplyFn(f, xs[i])]
Kept(ys, p) == SelectSeq(ys, LAMBDA y : ApplyPred(p, y))

\* C10: a subscription to of(xs).map(fn).filter(p) receives exactly the values
\* fn(x) that p holds of, in the order of xs, then the completion once; for
\* xs = [1,2,3,4], fn = x*2 and p = x>4 it receives 6, 8.
C10_MapThenFilter ==
  (graph.k = "filter" /\ graph.up.k = "map" /\ graph.up.up.k = "of") =>
    \A s \in Subs :
      /\ Trace(s) = IF Subscribed(s)
                      THEN Delivered(s, Kept(Projected(graph.up.up.payloads, graph.up.fn),
                                             graph.fn))
                      ELSE <<>>
      /\ (Subscribed(s) /\ graph = Filter(Map(Of(<<1, 2, 3, 4>>), "double"), "gt4")) =>
           Trace(s) = <<Ev("value", s, 6, 0), Ev("value", s, 8, 0),
                        Ev("complete", s, Void, 0)>>

\* the example of the claim: 1,2,3,4 doubled and kept above 4
C10_Witness ==
  /\ graph = Filter(Map(Of(<<1, 2, 3, 4>>), "double"), "gt4")
  /\ Subscribed(1)
  /\ Len(Trace(1)) = 3

----------------------------------------------------------------------------
\* the values input sig of a merge emitted to a subscription made before any
\* call: the payloads of an of, the finished dispatch calls of a Subject
Emitted(sig) ==
  IF sig.k = "of" THEN Len(sig.payloads)
  ELSE Cardinality({c \in 1..Len(calls) :
                      calls[c].hub = sig.hub /\ calls[c].k = "dispatch" /\ calls[c].done})

\* the caller subscribed before any call was made, is still subscribed, and
\* every fan-out has run
Settled(s) ==
  /\ status[s] = "active"
  /\ microtasks = <<>>
  /\ \A c \in 1..Len(calls) : calls[c].status[s] = "active"

\* C12: for a subscription to merge(s1, s2) the number of downstream onValue
\* invocations equals the sum over the inputs of the values each input
\* emitted, also when the same Subject is passed as both inputs.
C12_ForwardedOncePerInput ==
  graph.k = "merge" =>
    \A s \in Subs :
      Settled(s) =>
        Count(Trace(s), LAMBDA e : e.k = "value")
          = Emitted(graph.signals[1]) + Emitted(graph.signals[2])

\* C12 for inputs that are not one Subject passed twice
C12_ForwardedOncePerDistinctInput ==
  (graph.k = "merge" /\ ~(graph.signals[1] = graph.signals[2]
                           /\ graph.signals[1].k = "subject")) =>
    \A s \in Subs :
      Settled(s) =>
        Count(Trace(s), LAMBDA e : e.k = "value")
          = Emitted(graph.signals[1]) + Emitted(graph.signals[2])

\* two distinct inputs emitted and each value was forwarded once
C12_WitnessDistinct ==
  /\ graph = Merge(<<SubjectOf("A"), Of(<<2>>)>>)
  /\ Settled(1)
  /\ Emitted(SubjectOf("A")) = 2
  /\ Count(Trace(1), LAMBDA e : e.k = "value") = 3

----------------------------------------------------------------------------
\* what fan-out turn c leaves in the history when it invokes the value
\* callbacks of `set` in order, once each, and then resolves the promise
InvokedThenResolved(c, set) ==
  [i \in 1..(Len(set) + 1) |->
     IF i <= Len(set) THEN Ev("value", set[i].n, calls[c].v, c)
                      ELSE Ev("resolve", 0, calls[c].v, c)]

----------------------------------------------------------------------------
\* the calls made by caller s's Unsubscribe and everything after it
AfterUnsub(s) == {c \in 1..Len(calls) : calls[c].status[s] = "unsubscribed"}

\* the source.complete() the loop's Unsubscribe made: the first call after it
UnsubComplete(s) == {c \in AfterUnsub(s) : \A d \in AfterUnsub(s) : c <= d}

\* a value the sink delivered into the hub: a dispatch call on the hub made by
\* the callback the loop wired into the sink, not one injected from outside
SinkMade(c) ==
  calls[c].hub = "source" /\ calls[c].k = "dispatch" /\ ~(Identity /\ calls[c].from = 0)

\* C14: invoking the Unsubscribe of a loop subscription signals completion on
\* the hub and then unsubscribes the sink, in that order, and after it no
\* value produced by the sink is delivered into the hub or to the caller.
C14_UnsubscribeStopsSink ==
  graph.k = "loop" =>
    \A s \in Subs :
      status[s] = "unsubscribed" =>
        /\ \A c \in UnsubComplete(s) :
             /\ calls[c].k = "complete" /\ calls[c].hub = "source" /\ calls[c].from = 0
             /\ Identity => \E i \in 1..Len(calls[c].atCall) :
                              calls[c].atCall[i].k = "boundComplete"
        /\ \A h \in Hubs : \A i \in 1..Len(dispatchs[h]) :
             dispatchs[h][i].k # "boundDispatch"
        /\ \A c \in AfterUnsub(s) : ~SinkMade(c)
        /\ \A i \in Where(LAMBDA e : e.k = "unsub" /\ e.s = s) :
             \A j \in Where(LAMBDA e : e.k = "value" /\ e.s = s /\ SinkMade(e.turn)) :
               j < i

\* C14, the order alone: source.complete() is called while the sink is still
\* subscribed, and the sink's Unsubscribe has run when the handler ends
C14_CompleteThenUnsubSink ==
  graph.k = "loop" =>
    \A s \in Subs :
      status[s] = "unsubscribed" =>
        /\ \A c \in UnsubComplete(s) :
             /\ calls[c].k = "complete" /\ calls[c].hub = "source" /\ calls[c].from = 0
             /\ Identity => \E i \in 1..Len(calls[c].atCall) :
                              calls[c].atCall[i].k = "boundComplete"
        /\ \A h \in Hubs : \A i \in 1..Len(dispatchs[h]) :
             dispatchs[h][i].k # "boundDispatch"

\* the Unsubscribe of an identity loop was invoked and its completion ran
C14_WitnessOrder ==
  /\ Identity
  /\ status[1] = "unsubscribed"
  /\ \E c \in UnsubComplete(1) : calls[c].done

----------------------------------------------------------------------------
\* fan-out turn c is still queued
Queued(c) == \E i \in 1..Len(microtasks) :
               microtasks[i].k \in {"dispatch", "complete"} /\ microtasks[i].call = c

\* call d was made by a callback running in fan-out turn c of the same hub
Reentrant(c, d) ==
  calls[d].from = c /\ calls[d].hub = calls[c].hub /\ calls[d].k = "dispatch"

\* C16: no subscriber callback is invoked inside a call of Subject.dispatch or
\* Subject.complete: the call only queues a fan-out turn; every callback runs
\* in a turn; the turns do not nest or interleave, each ends with the
\* resolution of its promise; and the turn of a dispatch a value callback made
\* on the same hub starts only after the turn it was made in has ended.
C16_FanOutsNeverNest ==
  graph.k = "loop" =>
    LET f == FanOutLog
    IN /\ \A c \in 1..Len(calls) :
            ~calls[c].done => (Queued(c) /\ TurnEvents(c) = <<>>)
       /\ \A i \in 1..Len(f) : f[i].turn \in 1..Len(calls) /\ calls[f[i].turn].done
       /\ \A i \in 1..(Len(f) - 1) :
            /\ f[i].turn <= f[i + 1].turn
            /\ f[i].k = "resolve" => f[i].turn < f[i + 1].turn
       /\ \A c \in 1..Len(calls), d \in 1..Len(calls) :
            Reentrant(c, d) => (c < d /\ calls[c].done)

\* in an identity loop a value callback dispatched on the hub it was called
\* from, and the turn of that dispatch has run
C16_Witness ==
  /\ Identity
  /\ \E c \in 1..Len(calls), d \in 1..Len(calls) :
       /\ Reentrant(c, d)
       /\ calls[d].done
       /\ TurnEvents(d) # <<>>

----------------------------------------------------------------------------
\* what the fan-out turn of complete call c leaves in the history when it
\* invokes the completion callbacks of `set` once each and then resolves
CompletedThenResolved(c, set) ==
  [i \in 1..(Len(set) + 1) |->
     IF i <= Len(set) THEN Ev("complete", set[i].n, Void, c)
                      ELSE Ev("resolve", 0, Void, c)]

\* this step is the call complete() or the fan-out turn of call c, a complete
CompleteStep(c) ==
  /\ c \in 1..Len(calls')
  /\ calls'[c].k = "complete"
  /\ \/ c > Len(calls)
     \/ c <= Len(calls) /\ calls'[c].done /\ ~calls[c].done

\* dispatch call d was made after a complete() on its hub
AfterComplete(d) ==
  /\ calls[d].k = "dispatch"
  /\ \E c \in 1..(d - 1) : calls[c].k = "complete" /\ calls[c].hub = calls[d].hub

C18_SetsUnchanged ==
  \A c \in 1..MaxCalls :
    CompleteStep(c) =>
      /\ dispatchs' = dispatchs
      /\ completes' = completes
      /\ calls'[c].done => TurnEvents(c)' = CompletedThenResolved(c, completes[calls[c].hub])'

C18_DeliveredAfterComplete ==
  graph = SubjectOf("A") =>
    \A d \in 1..Len(calls) : \A s \in Subs :
      (AfterComplete(d) /\ calls[d].done
         /\ calls[d].status[s] = "active" /\ status[s] = "active") =>
        Count(TurnEvents(d), LAMBDA e : e = Ev("value", s, calls[d].v, d)) = 1

\* C18: Subject.complete() invokes every registered completion callback once
\* and leaves both membership sets unchanged; a dispatch(v) issued after
\* complete() is still delivered to every subscriber that has not invoked
\* its own Unsubscribe.
C18_CompleteKeepsSubscribers ==
  [][C18_SetsUnchanged]_vars /\ []C18_DeliveredAfterComplete

\* both callers got the completion, stayed registered, and then got the value
\* of a dispatch made after it
C18_Witness ==
  /\ graph = SubjectOf("A")
  /\ Len(calls) >= 2
  /\ calls[1].k = "complete"
  /\ TurnEvents(1) = CompletedThenResolved(1, <<OnComplete(1), OnComplete(2)>>)
  /\ calls[2].k = "dispatch" /\ calls[2].behind = 0 /\ calls[2].done
  /\ \A s \in Subs : status[s] = "active"
  /\ Count(TurnEvents(2), LAMBDA e : e.k = "value") = 2

----------------------------------------------------------------------------
InputUnsubs(m, i) == Where(LAMBDA e : e.k = "inputUnsub" /\ e.s = m /\ e.v = i)

\* the calls on the inputs made after caller s invoked the merge's Unsubscribe
LaterCalls(s, kind) ==
  {c \in 1..Len(calls) : CalledAfterUnsub(c, s) /\ calls[c].k = kind /\ calls[c].done}

\* C19: the Unsubscribe of a merge(s1, s2) subscription invokes the
\* Unsubscribe of every input exactly once; after it no value emitted by a
\* Subject-backed input is forwarded downstream, and later input completions
\* neither reach the merge nor signal the merged completion.
C19_MergeUnsubscribeStopsInputs ==
  graph.k = "merge" =>
    \A s \in Subs :
      status[s] = "unsubscribed" =>
        /\ \A i \in 1..Len(graph.signals) :
             Cardinality(InputUnsubs(held[s].m, i)) = 1
        /\ \A i \in Where(LAMBDA e : e.k = "unsub" /\ e.s = s) :
             \A j \in Where(LAMBDA e : e.k \in {"value", "complete", "inputComplete"}) :
               j < i
        /\ \A c \in 1..Len(calls) : CalledAfterUnsub(c, s) => TurnEvents(c) \in
             {<<>>, <<Ev("resolve", 0, calls[c].v, c)>>}

\* after the Unsubscribe of merge(A, B) a value was dispatched on A and both
\* hubs completed; the caller, who had received nothing, received nothing
C19_Witness ==
  /\ graph = Merge(<<SubjectOf("A"), SubjectOf("B")>>)
  /\ status[1] = "unsubscribed"
  /\ \E c \in LaterCalls(1, "dispatch") : calls[c].hub = "A"
  /\ \E c \in LaterCalls(1, "complete"), d \in LaterCalls(1, "complete") :
       calls[c].hub = "A" /\ calls[d].hub = "B"
  /\ Trace(1) = <<>>

----------------------------------------------------------------------------
\* caller s was unsubscribed during fan-out turn c
UnsubscribedIn(c, s) == \E i \in 1..Len(log) : log[i] = Ev("unsub", s, Void, c)

\* fan-out turn c began with the canceller registered ahead of caller t, and the
\* canceller's callback unsubscribed t during the turn
CancelledMidTurn(c, t) ==
  /\ calls[c].k = "dispatch"
  /\ calls[c].done
  /\ calls[c].atTurn = <<Canceller(1, t), OnValue(t)>>
  /\ UnsubscribedIn(c, t)

\* C15 as claimed: a subscriber registered when the fan-out turn for v began,
\* and unsubscribed during that turn by a callback that ran earlier in the
\* turn, still has its own callback invoked with v in that turn.
C15_RemovedMidTurnStillInvoked ==
  graph.k = "subject" =>
    \A c \in 1..Len(calls) : \A t \in Subs :
      CancelledMidTurn(c, t) =>
        Count(TurnEvents(c), LAMBDA e : e = Ev("value", t, calls[c].v, c)) = 1

\* C15 as amended: such a subscriber is not invoked in that turn, nor in any
\* later one: the turn invokes the callbacks that ran before the removal and
\* resolves.
C15_RemovedMidTurnNotInvoked ==
  graph.k = "subject" =>
    \A c \in 1..Len(calls) : \A t \in Subs :
      CancelledMidTurn(c, t) =>
        /\ TurnEvents(c) = <<Ev("value", 1, calls[c].v, c), Ev("resolve", 0, calls[c].v, c)>>
        /\ \A d \in c..Len(calls) : Count(TurnEvents(d), LAMBDA e : e.s = t) = 0

\* caller 2 was unsubscribed by caller 1's callback in the turn of a dispatch
\* made when both were registered
C15_Witness ==
  /\ graph.k = "subject"
  /\ \E c \in 1..Len(calls) :
       /\ CancelledMidTurn(c, 2)
       /\ calls[c].atCall = calls[c].atTurn
       /\ status[2] = "unsubscribed"
       /\ ~Has(dispatchs["A"], OnValue(2))

----------------------------------------------------------------------------
\* both callbacks of caller s are in the hub's Sets
Registered(s) ==
  /\ Has(dispatchs[graph.hub], CallbacksOf(s).d)
  /\ Has(completes[graph.hub], CallbacksOf(s).c)

\* neither callback of caller s is in the hub's Sets
Removed(s) ==
  /\ ~Has(dispatchs[graph.hub], CallbacksOf(s).d)
  /\ ~Has(completes[graph.hub], CallbacksOf(s).c)

\* caller s was subscribed when call c was made and has not unsubscribed
ActiveThrough(c, s) == calls[c].status[s] = "active" /\ status[s] = "active"

\* the callback of caller s that call c is for was invoked in fan-out turn c
Reached(c, s) ==
  LET cb == IF calls[c].k = "dispatch" THEN CallbacksOf(s).d ELSE CallbacksOf(s).c
      kind == IF calls[c].k = "dispatch" THEN "value" ELSE "complete"
  IN Count(TurnEvents(c), LAMBDA e : e = Ev(kind, cb.n, calls[c].v, c)) = 1

SubscriptionsKept ==
  /\ \A s \in Subs : status[s] = "active" => Registered(s)
  /\ \A s \in Subs :
       (status[s] = "unsubscribed"
          /\ \A t \in Subs \ {s} : status[t] = "active" => CallbacksOf(t) # CallbacksOf(s))
         => Removed(s)
  /\ \A c \in 1..Len(calls) : \A s \in Subs :
       (calls[c].done /\ ActiveThrough(c, s)) => Reached(c, s)

\* C17: in every reachable state of a Subject each active subscription has its
\* value callback in the value Set and its completion callback in the
\* completion Set; an Unsubscribe removes that subscription's two callbacks
\* and leaves every other active subscription registered and receiving values
\* and completion, also when two subscriptions were made with the same
\* callback functions.
C17_SubscriptionsIndependent ==
  (graph.k = "subject" /\ graph.hub = "A") => SubscriptionsKept

\* C17 for subscriptions made with distinct callback functions
C17_DistinctSubscriptionsIndependent ==
  (graph.k = "subject" /\ graph.hub = "A" /\ CallbacksOf(1) # CallbacksOf(2)) =>
    SubscriptionsKept

\* of two subscriptions with distinct callbacks one was unsubscribed; the other
\* then received a value and the completion
C17_WitnessDistinct ==
  /\ graph.k = "subject"
  /\ CallbacksOf(1) # CallbacksOf(2)
  /\ status[1] = "unsubscribed" /\ Removed(1)
  /\ status[2] = "active" /\ Registered(2)
  /\ \E c \in 1..Len(calls), d \in 1..Len(calls) :
       /\ calls[c].k = "dispatch" /\ calls[d].k = "complete"
       /\ CalledAfterUnsub(c, 1) /\ CalledAfterUnsub(d, 1)
       /\ calls[c].done /\ calls[d].done
       /\ ActiveThrough(c, 2) /\ ActiveThrough(d, 2)

----------------------------------------------------------------------------
\* the cycle of main: the sink is, or is a Terminal over, a merge of a finite
\* source and a stream derived from the loop's own source
MainLike ==
  /\ graph.k = "loop"
  /\ \/ graph.sink.k = "merge"
     \/ graph.sink.k = "terminal" /\ graph.sink.up.k = "merge"

\* the finite source of the cycle
Initial == IF graph.sink.k = "merge" THEN graph.sink.signals[1].payloads
                                       ELSE graph.sink.up.signals[1].payloads

UnsubInvoked(s) == Where(LAMBDA e : e.k = "unsub" /\ e.s = s) # {}

\* every fan-out has run and the loop has handed the caller its Unsubscribe
Quiescent(s) == microtasks = <<>> /\ status[s] \in {"active", "unsubscribed"}

\* C20: in a loop whose sink is merge(finite source, stream derived from the
\* loop's own source), as in main, the merged sink completes only after the hub
\* completes and the hub completes only after the sink completes: neither
\* does, and unless the caller invokes the loop's Unsubscribe its onComplete
\* is never invoked, even after every value has been delivered.
C20_NeverCompletesUnlessUnsubscribed ==
  MainLike =>
    /\ \A m \in 1..Len(completed) : ~completed[m] /\ counter[m] >= 1
    /\ \A c \in 1..Len(calls) :
         (calls[c].hub = "source" /\ calls[c].k = "complete") =>
           (calls[c].from = 0 /\ \E s \in Subs : CalledAfterUnsub(c, s))
    /\ \A i \in InputCompletions(1, 2) :
         calls[log[i].turn].hub = "source" /\ calls[log[i].turn].k = "complete"
    /\ \A s \in Subs : DownstreamCompletions(s) # {} => UnsubInvoked(s)

\* main ran to quiescence: the finite source completed, the answer was
\* delivered and greeted, nothing is queued, and onComplete was not invoked
C20_Witness ==
  /\ graph = Main(<<PromptRequest("1", "Q")>>, "byKind1", "World")
  /\ Quiescent(1)
  /\ ~UnsubInvoked(1)
  /\ InputCompletions(1, 1) # {}
  /\ Where(LAMBDA e : e.k = "console" /\ e.v = "Hello World") # {}
  /\ Trace(1) = <<Ev("value", 1, TerminalResponse("1", "World"), 1)>>

----------------------------------------------------------------------------
\* the end-to-end graph: main with the one request Prompt "1" and a Terminal
\* that answers `answer`
EndToEnd(answer) == graph = Main(<<PromptRequest("1", "Q")>>, "byKind1", answer)

\* the values caller s has observed, in order
Observed(s) ==
  LET t == SelectSeq(log, LAMBDA e : e.k = "value" /\ e.s = s)
  IN [i \in 1..Len(t) |-> t[i].v]

\* what the Terminal was asked to do, in order: prompts put and lines printed
TerminalLog == SelectSeq(log, LAMBDA e : e.k \in {"prompt", "console"})

IsPrefix(xs, ys) == Len(xs) <= Len(ys) /\ xs = SubSeq(ys, 1, Len(xs))

\* C11 as claimed: in the end-to-end graph fed through a Terminal that answers
\* "World" to prompt "1", the external subscriber observes, in order, a Prompt
\* request object and then a Log request object whose data is "Hello World".
C11_CallerObservesRequests ==
  (EndToEnd("World") /\ Quiescent(1)) =>
    /\ Len(Observed(1)) = 2
    /\ Observed(1)[1].kind = "Prompt"
    /\ Observed(1)[2] = LogRequest("Hello World")

\* C11 as amended: it is the Terminal that receives, in order, the Prompt
\* request and then the Log request "Hello " + answer, which it prints; the
\* external subscriber observes one value, the Terminal's response to prompt
\* "1" carrying the answer, and no request.
C11_TerminalGreetsCallerObservesResponse ==
  \A answer \in Answers :
    EndToEnd(answer) =>
      LET asked == <<Ev("prompt", 0, "Q", 0), Ev("console", 0, "Hello " \o answer, 1)>>
          seen == <<TerminalResponse("1", answer)>>
      IN /\ IsPrefix(TerminalLog, asked)
         /\ IsPrefix(Observed(1), seen)
         /\ Len(TerminalLog) = 2 => Observed(1) = seen
         /\ Quiescent(1) => (TerminalLog = asked /\ Observed(1) = seen)

\* the Terminal answered "World", the caller got the response and the
\* greeting was printed
C11_Witness ==
  /\ EndToEnd("World")
  /\ Quiescent(1)
  /\ Observed(1) = <<TerminalResponse("1", "World")>>
  /\ TerminalLog[2] = Ev("console", 0, "Hello World", 1)

====
